---- MODULE Spec2Model ----
(***************************************************************************)
(* A model of geojson_rewind_app.py: the ring winding analyzer             *)
(* (calculate_signed_area, check_winding_and_geometry), the rewrite        *)
(* decision of the single-file and the batch mode, and the two modes'      *)
(* control flow around them.                                               *)
(*                                                                         *)
(* Representation of the Python values.                                    *)
(*  - A point is a tuple of numbers, <<x, y>> or <<x, y, z>>; a ring is a  *)
(*    sequence of points.                                                  *)
(*  - A JSON object is a record; "k in d" is  k \in DOMAIN d.  JSON null   *)
(*    is the record JsonNull, which has no member the code asks for.       *)
(*  - The "coordinates" member of a MultiPolygon is named "polygons" in    *)
(*    the model: TLC cannot compare a list of rings with a list of lists   *)
(*    of rings, so the two nestings get two member names.                  *)
(*  - Coordinates are small integers.  calculate_signed_area returns       *)
(*    0.5 * s for the shoelace sum s; the model keeps s itself, the area   *)
(*    counted in half units (member "area2"): halving is exact and keeps   *)
(*    the sign, and "area = 1.0" reads  area2 = 2.                         *)
(*  - shapely (shape, is_valid, explain_validity) is outside the           *)
(*    repository: its answer for a feature is an input, the feature's      *)
(*    member "shapely", one of ShapeOutcomes.                              *)
(*  - geojson_rewind.rewind is imported (line 12) and its code is not in   *)
(*    the repository: it is modelled from section 4.2 of the               *)
(*    specification (rewind, correctRings, wind, is_clockwise, ringArea).  *)
(*  - json.dumps followed by json.loads gives back the lists, objects and  *)
(*    numbers it was given, so a downloaded document that is uploaded      *)
(*    again is the document itself.                                        *)
(***************************************************************************)
EXTENDS Integers, Sequences, FiniteSets, TLC

VARIABLES
    mode,             \* line 34: "Single File" or "Batch Upload (ZIP)"
    force_ccw,        \* line 36: desired_winding == "Counterclockwise"
    file,             \* line 121: the uploaded file's content (single-file mode)
    archive,          \* line 143/150: the .zip's entries in os.walk order
    idx,              \* position of the batch loop (lines 150-151)
    pc,               \* where the script run is
    pass,             \* 1 for the first upload, +1 for every re-upload of a download
    results,          \* lines 124/157: the analysis of the document at hand
    clockwise_count,  \* lines 125/158
    invalid_count,    \* lines 126/159
    should_rewind,    \* lines 131/160: the rewrite decision
    corrected,        \* line 133: the rewound document offered for download
    corrected_files,  \* line 148
    log               \* line 149

vars == <<mode, force_ccw, file, archive, idx, pc, pass, results, clockwise_count,
          invalid_count, should_rewind, corrected, corrected_files, log>>

-----------------------------------------------------------------------------
(* Bounds of the model.                                                    *)

MaxRingLen == 5      \* points of a ring in SpecRing
MaxDocSize == 4      \* features + rings of a document in Spec
MaxFeatures == 2     \* features of a document in Spec
MaxFiles == 2        \* entries of an archive
MaxPasses == 2       \* uploads of one document and of its downloads

-----------------------------------------------------------------------------
(* Python and JSON values.                                                 *)

JsonNull == [null |-> TRUE]
InvalidJson == [invalid_json |-> TRUE]      \* text json.loads rejects
JsonArray == [array |-> <<>>]               \* valid JSON, but a list, not an object
NoFeaturesDoc == [type |-> "Feature"]       \* an object without a "features" key
NoDocument == [none |-> TRUE]               \* Python: the name is not bound yet

FeatureCollection(features) == [type |-> "FeatureCollection", features |-> features]
Polygon(rings) == [type |-> "Polygon", coordinates |-> rings]
MultiPolygon(polys) == [type |-> "MultiPolygon", polygons |-> polys]
PointGeometry == [type |-> "Point"]
UntypedGeometry == [bbox |-> <<>>]          \* an object without a "type" key

ShapeOutcomes == {"valid", "invalid", "raises"}

HasKey(d, k) == k \in DOMAIN d
JsonParses(content) == ~HasKey(content, "invalid_json")
IsMapping(value) == ~HasKey(value, "array") /\ ~HasKey(value, "null")

Reverse(s) == [i \in 1..Len(s) |-> s[Len(s) + 1 - i]]

RECURSIVE Concat(_)
Concat(seqs) == IF Len(seqs) = 0 THEN <<>> ELSE Head(seqs) \o Concat(Tail(seqs))

Minimum(S) == CHOOSE m \in S : \A k \in S : m <= k

-----------------------------------------------------------------------------
(* calculate_signed_area, lines 39-41.                                     *)

\* zip(*coords) yields as many tuples as the shortest point has components,
\* none for an empty ring; "x, y = ..." needs exactly two of them.
ZipArity(coords) ==
    IF Len(coords) = 0 THEN 0
    ELSE Minimum({Len(coords[i]) : i \in 1..Len(coords)})

RECURSIVE ShoelaceSum(_, _, _)
\* sum(x[i]*y[i+1] - x[i+1]*y[i] for i in range(n - 1)), from the 1-based i on
ShoelaceSum(x, y, i) ==
    IF i >= Len(x) THEN 0
    ELSE (x[i] * y[i + 1] - x[i + 1] * y[i]) + ShoelaceSum(x, y, i + 1)

\* Variant (fault seeded to test C5's property): a guard rejecting rings of
\* fewer than 4 points, which the code does not have.
calculate_signed_area_guarded(coords) ==
    IF ZipArity(coords) # 2 \/ Len(coords) < 4
    THEN [raises |-> TRUE, area2 |-> 0]
    ELSE LET x == [i \in 1..Len(coords) |-> coords[i][1]]
             y == [i \in 1..Len(coords) |-> coords[i][2]]
         IN  [raises |-> FALSE, area2 |-> ShoelaceSum(x, y, 1)]

\* Variant (fault seeded to test C3's property): "y, x = zip(*coords)".
calculate_signed_area_swapped(coords) ==
    IF ZipArity(coords) # 2
    THEN [raises |-> TRUE, area2 |-> 0]
    ELSE LET y == [i \in 1..Len(coords) |-> coords[i][1]]
             x == [i \in 1..Len(coords) |-> coords[i][2]]
         IN  [raises |-> FALSE, area2 |-> ShoelaceSum(x, y, 1)]

calculate_signed_area(coords) ==
    IF ZipArity(coords) # 2
    THEN [raises |-> TRUE, area2 |-> 0]
    ELSE LET x == [i \in 1..Len(coords) |-> coords[i][1]]
             y == [i \in 1..Len(coords) |-> coords[i][2]]
         IN  [raises |-> FALSE, area2 |-> ShoelaceSum(x, y, 1)]

-----------------------------------------------------------------------------
(* check_winding_and_geometry, lines 43-90.                                *)

\* Variant (fault seeded to test C1's property): "signed_area >= 0".
WindingOfGE(signed_area2) ==
    IF signed_area2 >= 0 THEN "Counterclockwise" ELSE "Clockwise"

\* line 72
WindingOf(signed_area2) ==
    IF signed_area2 > 0 THEN "Counterclockwise" ELSE "Clockwise"

\* lines 48-60: valid, validity_msg and stats from shapely's answer
ShapeCheck(feature) ==
    CASE feature.shapely = "valid" ->
           [valid |-> TRUE, validity_msg |-> "Valid", area |-> "shp.area",
            length |-> "shp.length"]
      [] feature.shapely = "invalid" ->
           [valid |-> FALSE, validity_msg |-> "explain_validity",
            area |-> "shp.area", length |-> "shp.length"]
      [] OTHER ->
           [valid |-> FALSE, validity_msg |-> "str(e)", area |-> "0",
            length |-> "0"]

\* lines 70-89: the result appended for one ring
RingResult(ring, props, chk) ==
    LET sa == calculate_signed_area(ring)
    IN  IF sa.raises
        THEN [properties |-> props, winding |-> "Unknown", valid |-> FALSE,
              validity_msg |-> "Error calculating area", area |-> "0",
              length |-> "0"]
        ELSE [properties |-> props, winding |-> WindingOf(sa.area2),
              valid |-> chk.valid, validity_msg |-> chk.validity_msg,
              area |-> chk.area, length |-> chk.length]

\* line 63: geom["type"] raises TypeError on None and KeyError on an object
\* without "type"; line 46 reads a missing geometry as {}.
TypeLookupRaises(feature) ==
    \/ ~HasKey(feature, "geometry")
    \/ ~HasKey(feature.geometry, "type")

\* Variant (fault seeded to test C8's property): "rings = p" for "rings.extend(p)".
ExtractRingsLastPolygon(geom) ==
    IF geom.type = "Polygon" THEN geom.coordinates
    ELSE IF geom.type = "MultiPolygon"
    THEN (IF Len(geom.polygons) = 0 THEN <<>> ELSE geom.polygons[Len(geom.polygons)])
    ELSE <<>>

\* lines 62-67
ExtractRings(geom) ==
    IF geom.type = "Polygon" THEN geom.coordinates
    ELSE IF geom.type = "MultiPolygon" THEN Concat(geom.polygons)
    ELSE <<>>

\* lines 46-89 for one feature: raises, or the results it appends
FeatureResults(feature) ==
    IF TypeLookupRaises(feature)
    THEN [raises |-> TRUE, results |-> <<>>]
    ELSE LET rings == ExtractRings(feature.geometry)
             props == feature.properties
             chk == ShapeCheck(feature)
         IN  [raises |-> FALSE,
              results |-> [i \in 1..Len(rings) |-> RingResult(rings[i], props, chk)]]

RECURSIVE AnalyzeFeatures(_)
AnalyzeFeatures(features) ==
    IF Len(features) = 0 THEN [raises |-> FALSE, results |-> <<>>]
    ELSE LET first == FeatureResults(Head(features))
             rest == AnalyzeFeatures(Tail(features))
         IN  IF first.raises \/ rest.raises
             THEN [raises |-> TRUE, results |-> <<>>]
             ELSE [raises |-> FALSE, results |-> first.results \o rest.results]

\* Variant (fault seeded to test C7's property): geojson["features"] for
\* geojson.get("features", []).
check_winding_and_geometry_subscript(geojson) ==
    IF ~IsMapping(geojson) \/ ~HasKey(geojson, "features")
    THEN [raises |-> TRUE, results |-> <<>>]
    ELSE AnalyzeFeatures(geojson.features)

\* line 45: geojson.get raises AttributeError when the JSON value is a list;
\* a missing "features" key reads as [].
check_winding_and_geometry(geojson) ==
    IF ~IsMapping(geojson) THEN [raises |-> TRUE, results |-> <<>>]
    ELSE IF ~HasKey(geojson, "features") THEN [raises |-> FALSE, results |-> <<>>]
    ELSE AnalyzeFeatures(geojson.features)

\* Variant (fault seeded to test C9's property): counting every ring that is
\* not Counterclockwise.
CountNotCounterclockwise(rs) ==
    Cardinality({i \in 1..Len(rs) : rs[i].winding # "Counterclockwise"})

\* lines 125/158
CountClockwise(rs) == Cardinality({i \in 1..Len(rs) : rs[i].winding = "Clockwise"})

\* lines 126/159
CountInvalid(rs) == Cardinality({i \in 1..Len(rs) : ~rs[i].valid})

-----------------------------------------------------------------------------
(* The rewrite decision.                                                   *)

\* line 131, single-file mode
single_file_needs_fix(ccw, clockwise, total) ==
    (ccw /\ clockwise > 0) \/ (~ccw /\ clockwise < total)

\* Variant (fault seeded to test C2's property): "<=" for "<".
batch_should_rewind_le(ccw, clockwise, total) ==
    (ccw /\ clockwise > 0) \/ (~ccw /\ clockwise <= total)

\* line 160, batch mode
batch_should_rewind(ccw, clockwise, total) ==
    (ccw /\ clockwise > 0) \/ (~ccw /\ clockwise < total)

-----------------------------------------------------------------------------
(* styled_geojson_layer, lines 92-118: what makes it raise.  Line 94       *)
(* subscripts geojson["features"] (KeyError without the key); line 97      *)
(* takes element [0] of a feature's analysis (IndexError for a feature     *)
(* without rings).                                                         *)

styled_geojson_layer_raises(geojson) ==
    \/ ~HasKey(geojson, "features")
    \/ \E i \in 1..Len(geojson.features) :
          LET r == FeatureResults(geojson.features[i])
          IN  r.raises \/ Len(r.results) = 0

-----------------------------------------------------------------------------
(* geojson_rewind.rewind, modelled from the specification, section 4.2:    *)
(* every ring is reversed where necessary so that exterior rings follow    *)
(* the desired orientation and interior rings the opposite one; other      *)
(* geometries, properties and the order of features are kept.  A ring's    *)
(* orientation is the sign of its shoelace sum over the first two          *)
(* components of its points, zero counting as clockwise (section 4.1).     *)

RECURSIVE ringArea2(_, _)
ringArea2(ring, i) ==
    IF i >= Len(ring) THEN 0
    ELSE (ring[i][1] * ring[i + 1][2] - ring[i + 1][1] * ring[i][2])
         + ringArea2(ring, i + 1)

is_clockwise(ring) == ringArea2(ring, 1) <= 0

wind(ring, clockwise) ==
    IF is_clockwise(ring) = clockwise THEN ring ELSE Reverse(ring)

correctRings(rings, rfc7946) ==
    [i \in 1..Len(rings) |-> wind(rings[i], IF i = 1 THEN ~rfc7946 ELSE rfc7946)]

rewind_geometry(geom, rfc7946) ==
    IF ~HasKey(geom, "type") THEN geom
    ELSE IF geom.type = "Polygon"
    THEN [geom EXCEPT !.coordinates = correctRings(@, rfc7946)]
    ELSE IF geom.type = "MultiPolygon"
    THEN [geom EXCEPT !.polygons =
              [p \in 1..Len(@) |-> correctRings(@[p], rfc7946)]]
    ELSE geom

rewind_feature(feature, rfc7946) ==
    IF ~HasKey(feature, "geometry") THEN feature
    ELSE [feature EXCEPT !.geometry = rewind_geometry(@, rfc7946)]

rewind(gj, rfc7946) ==
    IF ~HasKey(gj, "features") THEN gj
    ELSE [gj EXCEPT !.features =
              [i \in 1..Len(@) |-> rewind_feature(@[i], rfc7946)]]

-----------------------------------------------------------------------------
(* The documents a run is given.                                           *)

Coordinates == {0, 1}
Points2D == Coordinates \X Coordinates
Point3D == <<0, 0, 0>>

\* the rings of n points: of (x, y) pairs, or of (x, y, z) triples only (no
\* pair to unpack)
RingsOf(n) == [1..n -> Points2D] \cup [1..n -> {Point3D}]

SquareCCW == <<<<0, 0>>, <<1, 0>>, <<1, 1>>, <<0, 1>>, <<0, 0>>>>
SquareCW == <<<<0, 0>>, <<0, 1>>, <<1, 1>>, <<1, 0>>, <<0, 0>>>>
EmptyRing == <<>>

\* the rings of the documents of Spec: one of each classification
RingPool == {SquareCCW, SquareCW, EmptyRing}

PolygonsOf(k) == [1..k -> RingPool]

RECURSIVE MultiPolygonsOf(_)
\* the lists of non-empty polygons with k rings in all
MultiPolygonsOf(k) ==
    IF k = 0 THEN {<<>>}
    ELSE UNION {{<<p>> \o m : p \in PolygonsOf(j), m \in MultiPolygonsOf(k - j)}
                : j \in 1..k}

\* the features with k rings at position pos of a document; the position
\* serves as the feature's (opaque) properties.  shapely's answer is used for
\* a feature's rings only (lines 76-79), so a feature without rings has one.
FeaturesOf(k, pos) ==
    IF k = 0
    THEN {[properties |-> pos, geometry |-> g, shapely |-> "valid"] :
             g \in {Polygon(<<>>), MultiPolygon(<<>>), PointGeometry}}
         \cup {[properties |-> pos, geometry |-> UntypedGeometry, shapely |-> "raises"],
               [properties |-> pos, geometry |-> JsonNull, shapely |-> "raises"],
               [properties |-> pos, shapely |-> "raises"]}
    ELSE {[properties |-> pos, geometry |-> g, shapely |-> s] :
             g \in {Polygon(c) : c \in PolygonsOf(k)}
                   \cup {MultiPolygon(m) : m \in MultiPolygonsOf(k)},
             s \in ShapeOutcomes}

RECURSIVE FeatureListsOf(_, _, _)
\* the lists of at most f features, from position pos on, whose features and
\* rings number exactly n
FeatureListsOf(n, f, pos) ==
    IF n = 0 THEN {<<>>}
    ELSE IF f = 0 THEN {}
    ELSE UNION {{<<ft>> \o rest : ft \in FeaturesOf(k, pos),
                                  rest \in FeatureListsOf(n - 1 - k, f - 1, pos + 1)}
                : k \in 0..(n - 1)}

\* the documents of at most f features whose features and rings number at
\* most size
DocumentsUpTo(size, f) ==
    {FeatureCollection(fs) :
        fs \in UNION {FeatureListsOf(n, f, 1) : n \in 0..size}}

\* a FeatureCollection of one Polygon of one ring
RingDocument(ring, shapely) ==
    FeatureCollection(<<[properties |-> 1, geometry |-> Polygon(<<ring>>),
                         shapely |-> shapely]>>)

\* the documents of an archive's entries: no feature, or one feature that is
\* a Polygon of one ring or has a geometry without a type
BatchDocuments ==
    {FeatureCollection(<<>>)}
    \cup {FeatureCollection(<<ft>>) :
             ft \in {g \in FeaturesOf(0, 1) : ~HasKey(g, "geometry")
                                               \/ ~HasKey(g.geometry, "type")}
                    \cup {g \in FeaturesOf(1, 1) : g.geometry.type = "Polygon"}}

\* an entry of the archive: whether its name ends in ".geojson" (line 152)
\* and what json.load finds in it, a document of docs or no document
EntryKinds(docs) ==
    {[is_geojson |-> TRUE, content |-> c] :
        c \in docs \cup {InvalidJson, JsonArray, NoFeaturesDoc}}
    \cup {[is_geojson |-> FALSE, content |-> InvalidJson]}

\* the archives of n entries over kinds; an entry's name is its position
ArchivesOf(n, kinds) ==
    {[i \in 1..n |-> [fname |-> i, is_geojson |-> a[i].is_geojson,
                      content |-> a[i].content]] : a \in [1..n -> kinds]}

-----------------------------------------------------------------------------
(* The state machine.                                                      *)

Modes == {"Single File", "Batch Upload (ZIP)"}

\* lines 19-36 and the upload: nothing is analyzed yet
Start(m, ccw, f, a) ==
    /\ mode = m
    /\ force_ccw = ccw
    /\ file = f
    /\ archive = a
    /\ idx = 1
    /\ pc = IF m = "Single File" THEN "uploaded" ELSE "batch_loop"
    /\ pass = 1
    /\ results = <<>>
    /\ clockwise_count = 0
    /\ invalid_count = 0
    /\ should_rewind = FALSE
    /\ corrected = NoDocument
    /\ corrected_files = <<>>
    /\ log = <<>>

\* single-file mode: every document within the bounds, and what is no
\* FeatureCollection; batch mode: archives of small documents
Init ==
    \E ccw \in BOOLEAN :
        \/ \E f \in DocumentsUpTo(MaxDocSize, MaxFeatures)
                      \cup {InvalidJson, JsonArray, NoFeaturesDoc} :
              Start("Single File", ccw, f, <<>>)
        \/ \E n \in 0..MaxFiles :
              \E a \in ArchivesOf(n, EntryKinds(BatchDocuments)) :
                 Start("Batch Upload (ZIP)", ccw, NoDocument, a)

\* one document of one Polygon of one ring, for every ring
InitRing ==
    \E ccw \in BOOLEAN : \E s \in ShapeOutcomes :
      \E n \in 0..MaxRingLen : \E r \in RingsOf(n) :
        \/ Start("Single File", ccw, RingDocument(r, s), <<>>)
        \/ Start("Batch Upload (ZIP)", ccw, NoDocument,
                 <<[fname |-> 1, is_geojson |-> TRUE, content |-> RingDocument(r, s)]>>)

\* lines 120-140: the script run after an upload, up to the decision
SingleFileRun ==
    /\ mode = "Single File"
    /\ pc = "uploaded"
    /\ LET analysis == check_winding_and_geometry(file)
           cw == CountClockwise(analysis.results)
           fix == single_file_needs_fix(force_ccw, cw, Len(analysis.results))
       IN  IF ~JsonParses(file)
           THEN /\ pc' = "parse_error"                           \* line 123
                /\ UNCHANGED <<results, clockwise_count, invalid_count, should_rewind>>
           ELSE IF analysis.raises
           THEN /\ pc' = "analysis_error"                        \* line 124
                /\ UNCHANGED <<results, clockwise_count, invalid_count, should_rewind>>
           ELSE /\ results' = analysis.results
                /\ clockwise_count' = cw
                /\ invalid_count' = CountInvalid(analysis.results)
                /\ IF styled_geojson_layer_raises(file)
                   THEN /\ pc' = "map_error"                     \* line 129
                        /\ UNCHANGED should_rewind
                   ELSE /\ should_rewind' = fix                  \* line 131
                        /\ pc' = IF fix THEN "offer_fix" ELSE "all_match"
    /\ UNCHANGED <<mode, force_ccw, file, archive, idx, pass, corrected,
                   corrected_files, log>>

\* lines 132-138: the button is pressed and the rewound document downloaded
FixWindingAndDownload ==
    /\ mode = "Single File"
    /\ pc = "offer_fix"
    /\ corrected' = rewind(file, force_ccw)
    /\ pc' = "downloaded"
    /\ UNCHANGED <<mode, force_ccw, file, archive, idx, pass, results,
                   clockwise_count, invalid_count, should_rewind,
                   corrected_files, log>>

\* line 121 again: the downloaded document is uploaded
ReuploadCorrected ==
    /\ mode = "Single File"
    /\ pc = "downloaded"
    /\ pass < MaxPasses
    /\ file' = corrected
    /\ pass' = pass + 1
    /\ pc' = "uploaded"
    /\ UNCHANGED <<mode, force_ccw, archive, idx, results, clockwise_count,
                   invalid_count, should_rewind, corrected, corrected_files, log>>

\* line 164
OutputName(fname, ccw) ==
    <<fname, IF ccw THEN "Counterclockwise" ELSE "Clockwise">>

\* lines 151-167: one entry of the archive
BatchProcessFile ==
    /\ mode = "Batch Upload (ZIP)"
    /\ pc = "batch_loop"
    /\ idx <= Len(archive)
    /\ idx' = idx + 1
    /\ LET entry == archive[idx]
           analysis == check_winding_and_geometry(entry.content)
           cw == CountClockwise(analysis.results)
           inv == CountInvalid(analysis.results)
           rw == batch_should_rewind(force_ccw, cw, Len(analysis.results))
           data == IF rw THEN rewind(entry.content, force_ccw) ELSE entry.content
       IN  IF ~entry.is_geojson                                  \* line 152
           THEN UNCHANGED <<results, clockwise_count, invalid_count,
                            should_rewind, corrected_files, log>>
           ELSE IF ~JsonParses(entry.content)                    \* lines 156, 166
           THEN /\ log' = Append(log, [fname |-> entry.fname, error |-> "json.load"])
                /\ UNCHANGED <<results, clockwise_count, invalid_count,
                               should_rewind, corrected_files>>
           ELSE IF analysis.raises                               \* lines 157, 166
           THEN /\ log' = Append(log, [fname |-> entry.fname,
                                       error |-> "check_winding_and_geometry"])
                /\ UNCHANGED <<results, clockwise_count, invalid_count,
                               should_rewind, corrected_files>>
           ELSE /\ results' = analysis.results
                /\ clockwise_count' = cw
                /\ invalid_count' = inv
                /\ should_rewind' = rw
                /\ corrected_files' =
                       Append(corrected_files,
                              [name |-> OutputName(entry.fname, force_ccw),
                               content |-> data])
                /\ log' = Append(log, [fname |-> entry.fname, clockwise |-> cw,
                                       invalid |-> inv,
                                       outcome |-> IF rw THEN "rewound"
                                                   ELSE "unchanged"])
    /\ UNCHANGED <<mode, force_ccw, file, archive, pass, pc, corrected>>

\* lines 168-180: the archive of the outputs and the log is offered
BatchFinish ==
    /\ mode = "Batch Upload (ZIP)"
    /\ pc = "batch_loop"
    /\ idx > Len(archive)
    /\ pc' = "batch_done"
    /\ UNCHANGED <<mode, force_ccw, file, archive, idx, pass, results,
                   clockwise_count, invalid_count, should_rewind, corrected,
                   corrected_files, log>>

Next ==
    \/ SingleFileRun
    \/ FixWindingAndDownload
    \/ ReuploadCorrected
    \/ BatchProcessFile
    \/ BatchFinish

Spec == Init /\ [][Next]_vars

SpecRing == InitRing /\ [][Next]_vars

-----------------------------------------------------------------------------
(* What the properties are stated with.                                    *)

\* the document the last run looked at
CurrentDocument ==
    IF mode = "Single File" THEN file ELSE archive[idx - 1].content

\* the run over CurrentDocument has ended, one way or another
Ran ==
    IF mode = "Single File" THEN pc # "uploaded"
    ELSE idx > 1 /\ archive[idx - 1].is_geojson

\* ... and "results" holds its analysis
Analyzed ==
    IF mode = "Single File"
    THEN pc \in {"map_error", "offer_fix", "all_match", "downloaded"}
    ELSE /\ idx > 1
         /\ archive[idx - 1].is_geojson
         /\ Len(log) > 0
         /\ HasKey(log[Len(log)], "outcome")

\* ... and "should_rewind" the decision taken from it
Decided ==
    IF mode = "Single File"
    THEN pc \in {"offer_fix", "all_match", "downloaded"}
    ELSE Analyzed

\* the one ring of a document of SpecRing
TheRing == CurrentDocument.features[1].geometry.coordinates[1]

\* The shoelace sum as the claims state it, the sum over i = 0..n-2 of
\* x[i]*y[i+1] - x[i+1]*y[i], in half units of area.
Cross(ring, i) == ring[i][1] * ring[i + 1][2] - ring[i + 1][1] * ring[i][2]

RECURSIVE CrossesUpTo(_, _)
CrossesUpTo(ring, k) ==
    IF k <= 0 THEN 0 ELSE CrossesUpTo(ring, k - 1) + Cross(ring, k)

ClaimedArea2(ring) == CrossesUpTo(ring, Len(ring) - 1)

ClaimedWinding(ring) ==
    IF ClaimedArea2(ring) > 0 THEN "Counterclockwise" ELSE "Clockwise"

\* a ring of (x, y) pairs
IsPairRing(ring) == \A i \in 1..Len(ring) : Len(ring[i]) = 2

AllIdentical(ring) == \A i, j \in 1..Len(ring) : ring[i] = ring[j]

\* fewer than 4 points, or all points identical
Degenerate(ring) == Len(ring) < 4 \/ AllIdentical(ring)

DesiredWinding == IF force_ccw THEN "Counterclockwise" ELSE "Clockwise"

-----------------------------------------------------------------------------
(* C1 (SpecRing): a ring of at least 2 (x, y) pairs is classified by the   *)
(* sign of its shoelace sum, Counterclockwise when positive and Clockwise  *)
(* when zero or negative; the reference square has signed area 1 and is    *)
(* Counterclockwise, its reversal signed area -1 and is Clockwise.         *)
C1_ShoelaceClassification ==
    (Analyzed /\ Len(TheRing) >= 2 /\ IsPairRing(TheRing)) =>
        /\ Len(results) = 1
        /\ results[1].winding = ClaimedWinding(TheRing)
        /\ (ClaimedArea2(TheRing) = 0 => results[1].winding = "Clockwise")
        /\ (TheRing = SquareCCW =>
               /\ calculate_signed_area(TheRing) = [raises |-> FALSE, area2 |-> 2]
               /\ results[1].winding = "Counterclockwise")
        /\ (TheRing = SquareCW =>
               /\ calculate_signed_area(TheRing) = [raises |-> FALSE, area2 |-> -2]
               /\ results[1].winding = "Clockwise")

C1_Witness ==
    /\ Analyzed
    /\ TheRing = SquareCCW
    /\ results[1].winding = "Counterclockwise"

-----------------------------------------------------------------------------
(* C2 (Spec): in both modes the decision is: desired Counterclockwise,     *)
(* true iff clockwise_count > 0; desired Clockwise, true iff               *)
(* clockwise_count < number of rings; so it is false for a document        *)
(* without rings.  The fix is offered (single file) or the entry logged    *)
(* "rewound" (batch) exactly when the decision is true.                    *)
C2_Decision ==
    Decided =>
        /\ clockwise_count =
               Cardinality({i \in 1..Len(results) : results[i].winding = "Clockwise"})
        /\ (force_ccw => (should_rewind <=> clockwise_count > 0))
        /\ (~force_ccw => (should_rewind <=> clockwise_count < Len(results)))
        /\ (Len(results) = 0 => ~should_rewind)
        /\ IF mode = "Single File"
           THEN should_rewind <=> pc \in {"offer_fix", "downloaded"}
           ELSE should_rewind <=> log[Len(log)].outcome = "rewound"

C2_Witness ==
    /\ Decided
    /\ mode = "Batch Upload (ZIP)"
    /\ ~force_ccw
    /\ clockwise_count < Len(results)
    /\ should_rewind

-----------------------------------------------------------------------------
(* C3 (Spec): for a FeatureCollection of Polygons of one ring of non-zero  *)
(* signed area each, the document rewound for Counterclockwise, analyzed   *)
(* again, has as many rings as before, none of them Clockwise, all of      *)
(* them Counterclockwise, and the decision on it is false.                 *)
SingleRingPolygons(doc) ==
    /\ HasKey(doc, "features")
    /\ \A i \in 1..Len(doc.features) :
          /\ HasKey(doc.features[i], "geometry")
          /\ HasKey(doc.features[i].geometry, "type")
          /\ doc.features[i].geometry.type = "Polygon"
          /\ Len(doc.features[i].geometry.coordinates) = 1
          /\ LET ring == doc.features[i].geometry.coordinates[1]
             IN  Len(ring) > 0 /\ IsPairRing(ring) /\ ClaimedArea2(ring) # 0

C3_RewoundIsCounterclockwise ==
    /\ (mode = "Single File" /\ force_ccw /\ pc = "downloaded"
            /\ SingleRingPolygons(file)) =>
          /\ SingleRingPolygons(corrected)
          /\ Len(corrected.features) = Len(results)
    /\ (mode = "Single File" /\ force_ccw /\ pass >= 2 /\ pc # "uploaded"
            /\ SingleRingPolygons(file)) =>
          /\ pc = "all_match"
          /\ Len(results) = Len(file.features)
          /\ clockwise_count = 0
          /\ \A i \in 1..Len(results) : results[i].winding = "Counterclockwise"
          /\ ~should_rewind

C3_Witness ==
    /\ mode = "Single File"
    /\ force_ccw
    /\ pass = 2
    /\ pc = "all_match"
    /\ SingleRingPolygons(file)
    /\ Len(file.features) = 2
    /\ Len(results) = 2

-----------------------------------------------------------------------------
-----------------------------------------------------------------------------
(* C5 (SpecRing).  As claimed: every degenerate ring (fewer than 4         *)
(* points, or all points identical) is reported Unknown with valid =       *)
(* false, and analyzing it never raises.                                   *)
C5_DegenerateIsUnknown ==
    (Ran /\ Degenerate(TheRing)) =>
        /\ Analyzed
        /\ results[1].winding = "Unknown"
        /\ ~results[1].valid

\* zip(*ring) gives an x and a y sequence
UnpacksToPairs(ring) ==
    /\ Len(ring) > 0
    /\ \A i \in 1..Len(ring) : Len(ring[i]) >= 2
    /\ \E i \in 1..Len(ring) : Len(ring[i]) = 2

(* C5 as amended: analyzing a degenerate ring never raises; it is Unknown  *)
(* with valid = false and "Error calculating area" exactly when no x and   *)
(* y sequence can be unpacked from it (no points, or points that are not   *)
(* pairs); any other degenerate ring is classified by the sign of its      *)
(* shoelace sum like every ring, Clockwise when all its points are         *)
(* identical, with valid as shapely found the feature.                     *)
C5_DegenerateClassified ==
    (Ran /\ Degenerate(TheRing)) =>
        /\ Analyzed
        /\ Len(results) = 1
        /\ IF UnpacksToPairs(TheRing)
           THEN /\ results[1].winding = ClaimedWinding(TheRing)
                /\ AllIdentical(TheRing) => results[1].winding = "Clockwise"
                /\ results[1].valid =
                       (CurrentDocument.features[1].shapely = "valid")
           ELSE /\ results[1].winding = "Unknown"
                /\ ~results[1].valid
                /\ results[1].validity_msg = "Error calculating area"

C5_Witness ==
    /\ Analyzed
    /\ Len(TheRing) = 4
    /\ IsPairRing(TheRing)
    /\ AllIdentical(TheRing)
    /\ results[1].winding = "Clockwise"

-----------------------------------------------------------------------------
(* C6 (Spec): check_winding_and_geometry never raises for any feature of   *)
(* a FeatureCollection, whatever its geometry.                             *)
C6_AnalysisNeverRaises ==
    (mode = "Single File" /\ pc # "uploaded" /\ JsonParses(file)
        /\ IsMapping(file) /\ HasKey(file, "features")) => pc # "analysis_error"

-----------------------------------------------------------------------------
(* C7 (Spec), batch mode.                                                  *)

LogLinesOf(fname) == {k \in 1..Len(log) : log[k].fname = fname}

OutputsOf(fname) ==
    {k \in 1..Len(corrected_files) : corrected_files[k].name[1] = fname}

\* the entries the loop has dealt with
Processed == 1..(idx - 1)

-----------------------------------------------------------------------------
(* C8 (Spec): for a document of Polygon and MultiPolygon features the      *)
(* analysis has exactly one result per ring, the i-th for the i-th ring    *)
(* in extraction order (features in order; a Polygon's rings in order; a   *)
(* MultiPolygon's polygons' rings concatenated in order), a ring whose     *)
(* computation fails being recorded as Unknown in its place.               *)

RECURSIVE RingsOfPolygonsUpTo(_, _)
RingsOfPolygonsUpTo(polys, k) ==
    IF k = 0 THEN <<>> ELSE RingsOfPolygonsUpTo(polys, k - 1) \o polys[k]

ClaimedRingsOf(feature) ==
    IF feature.geometry.type = "Polygon" THEN feature.geometry.coordinates
    ELSE RingsOfPolygonsUpTo(feature.geometry.polygons,
                             Len(feature.geometry.polygons))

RECURSIVE ClaimedRingList(_, _)
\* the rings of the first k features, each with the feature it belongs to
ClaimedRingList(features, k) ==
    IF k = 0 THEN <<>>
    ELSE LET rings == ClaimedRingsOf(features[k])
         IN  ClaimedRingList(features, k - 1)
             \o [j \in 1..Len(rings) |-> [ring |-> rings[j], owner |-> k]]

AllPolygonal(doc) ==
    /\ HasKey(doc, "features")
    /\ \A i \in 1..Len(doc.features) :
          /\ HasKey(doc.features[i], "geometry")
          /\ HasKey(doc.features[i].geometry, "type")
          /\ doc.features[i].geometry.type \in {"Polygon", "MultiPolygon"}

C8_OneResultPerRing ==
    (Analyzed /\ AllPolygonal(CurrentDocument)) =>
        LET features == CurrentDocument.features
            expected == ClaimedRingList(features, Len(features))
        IN  /\ Len(results) = Len(expected)
            /\ \A i \in 1..Len(expected) :
                  LET ring == expected[i].ring
                      owner == features[expected[i].owner]
                  IN  /\ results[i].properties = owner.properties
                      /\ results[i].winding =
                             (IF UnpacksToPairs(ring) THEN ClaimedWinding(ring)
                              ELSE "Unknown")
                      /\ results[i].valid =
                             (UnpacksToPairs(ring) /\ owner.shapely = "valid")

C8_Witness ==
    /\ Analyzed
    /\ mode = "Single File"
    /\ AllPolygonal(file)
    /\ Len(file.features) = 2
    /\ file.features[1].geometry.type = "MultiPolygon"
    /\ Len(file.features[1].geometry.polygons) = 2
    /\ Len(results) = 2
    /\ results[1].winding = "Unknown"
    /\ results[2].winding = "Clockwise"

-----------------------------------------------------------------------------
(* C9 (Spec).  As claimed: the decision is true iff some ring's            *)
(* classification differs from the desired winding, Unknown included.      *)
C9_NotAllMatch ==
    Decided =>
        (should_rewind <=>
            \E i \in 1..Len(results) : results[i].winding # DesiredWinding)

(* C9 as amended: desired Counterclockwise, the decision is true iff some  *)
(* ring is classified Clockwise; desired Clockwise, iff some ring is not   *)
(* classified Clockwise.  An Unknown ring therefore counts as matching     *)
(* when Counterclockwise is desired and as differing when Clockwise is;    *)
(* for results without Unknown rings the decision is "not all rings match  *)
(* the desired winding".                                                   *)
C9_ClockwisePresence ==
    Decided =>
        /\ should_rewind <=>
              \E i \in 1..Len(results) :
                  IF force_ccw THEN results[i].winding = "Clockwise"
                  ELSE results[i].winding # "Clockwise"
        /\ (\A i \in 1..Len(results) : results[i].winding # "Unknown") =>
              (should_rewind <=>
                  \E i \in 1..Len(results) : results[i].winding # DesiredWinding)

C9_Witness ==
    /\ Decided
    /\ force_ccw
    /\ ~should_rewind
    /\ \E i \in 1..Len(results) : results[i].winding = "Unknown"
    /\ \E i \in 1..Len(results) : results[i].winding = "Counterclockwise"

-----------------------------------------------------------------------------
(* C10 (Spec): once a document has been rewound for a desired direction,   *)
(* the decision on the rewound document is false.                          *)
C10_RewoundNeedsNoFix ==
    (mode = "Single File" /\ pass >= 2 /\ Decided) => ~should_rewind

====
